---- MODULE Spec2Model ----
(***************************************************************************)
(* Model of the scoring engine of riichi-hand (src/src/points.rs) and of    *)
(* its hand parser (src/src/parser.rs, src/src/hand.rs).                   *)
(*                                                                         *)
(* Spec is the scoring engine, ParserSpec the hand parser.                 *)
(*                                                                         *)
(* One behaviour is one scoring request: the caller picks a constructor of *)
(* PointsCustom<T> and its arguments (Init), the constructor runs, and the *)
(* caller then queries the payment accessors of the value it got (or       *)
(* formats the error it got).                                              *)
(*                                                                         *)
(* Han, Fu and Honbas wrap an i32.  The numeric base T is modelled by the  *)
(* integers; the requests are limited to those whose payments stay inside  *)
(* the signed 32-bit range, where the i32 base and an arbitrary-precision  *)
(* base compute the same values.                                           *)
(***************************************************************************)
EXTENDS Integers, Sequences, FiniteSets, TLC

\* the scoring engine
VARIABLES request, points, payments, queries, message

\* the hand parser
VARIABLES hand, groups, new_tiles, parsed, tile

\* the results of round_up_to, applied once and again
VARIABLES rounded

points_vars == <<request, points, payments, queries, message>>

parser_vars == <<hand, groups, new_tiles, parsed, tile>>

vars == <<points_vars, parser_vars, rounded>>

-----------------------------------------------------------------------------
(* Bounds of the explored requests.                                        *)

\* han ranges over -MaxNegHan .. MaxHan (plus ExtremeHan)
MaxNegHan == 5
MaxHan == 20
\* honbas ranges over -MaxNegHonbas .. MaxHonbas
MaxNegHonbas == 2
MaxHonbas == 3

\* i32::MAX and i32::MIN
I32_MAX == 2147483647
I32_MIN == -I32_MAX - 1

-----------------------------------------------------------------------------
(* Integer helpers with Rust's semantics.                                  *)

\* Rust's `/` on signed integers truncates toward zero (divisor > 0 here).
TruncDiv(a, b) == IF a >= 0 THEN a \div b ELSE -((-a) \div b)

\* T::pow / i64::pow for base 2
RECURSIVE Pow2(_)
Pow2(n) == IF n <= 0 THEN 1 ELSE 2 * Pow2(n - 1)

Max(a, b) == IF a >= b THEN a ELSE b

\* Option<T>: None is the empty tuple, Some(v) the one-element tuple.
None == <<>>
Some(v) == <<v>>

-----------------------------------------------------------------------------
(* PointsMode and its flags.                                               *)

Limited == [kind |-> "Limited"]
Calculated(t, r) == [kind |-> "Calculated", has_tsumo |-> t, has_ron |-> r]

PointsMode_has_tsumo(mode) ==
    IF mode.kind = "Calculated" THEN mode.has_tsumo ELSE TRUE

PointsMode_has_ron(mode) ==
    IF mode.kind = "Calculated" THEN mode.has_ron ELSE TRUE

-----------------------------------------------------------------------------
(* Constant tables.                                                        *)

MANGAN_HAN_RANGE == 5..5
HANEMAN_HAN_RANGE == 6..7
BAIMAN_HAN_RANGE == 8..10
SANBAIMAN_HAN_RANGE == 11..12
\* (variant: the last tier starting one han late)
KAZOE_YAKUMAN_HAN_RANGE_late == 14..I32_MAX
KAZOE_YAKUMAN_HAN_RANGE == 13..I32_MAX

VALID_FU == {20, 25, 30, 40, 50, 60, 70, 80, 90, 100, 110}

\* (variant: 2 han 20 fu without a tsumo entry as well)
NO_TSUMO_wide == {<<1, 20>>, <<1, 25>>, <<2, 20>>, <<2, 25>>}

NO_TSUMO == {<<1, 20>>, <<1, 25>>, <<2, 25>>}

has_tsumo(han, fu) == <<han, fu>> \notin NO_TSUMO

\* (variant: the 4 han 20 fu entry left out)
NO_RON_short == {<<1, 20>>, <<1, 25>>, <<2, 20>>, <<3, 20>>}
NO_RON == {<<1, 20>>, <<1, 25>>, <<2, 20>>, <<3, 20>>, <<4, 20>>}

has_ron(han, fu) == <<han, fu>> \notin NO_RON

-----------------------------------------------------------------------------
(* Constructors.                                                           *)

\* (variant: a limited value that forgets its honba)
new_limited_no_honbas(base_points, honbas) ==
    [base_points |-> base_points, mode |-> Limited, honbas |-> 0]

new_limited(base_points, honbas) ==
    [base_points |-> base_points, mode |-> Limited, honbas |-> honbas]

new_calculated(base_points, val_has_tsumo, val_has_ron, honbas) ==
    [base_points |-> base_points,
     mode |-> Calculated(val_has_tsumo, val_has_ron),
     honbas |-> honbas]

mangan(honbas) == new_limited(2000, honbas)
\* (variant: a haneman worth less than a mangan)
haneman_low(honbas) == new_limited(1500, honbas)
haneman(honbas) == new_limited(3000, honbas)
baiman(honbas) == new_limited(4000, honbas)
sanbaiman(honbas) == new_limited(6000, honbas)
yakuman(honbas) == new_limited(8000, honbas)

\* Result<Self, PointCalculationError>
Ok(p) == [tag |-> "Ok", value |-> p]
Err(e, v) == [tag |-> "Err", error |-> e, value |-> v]

-----------------------------------------------------------------------------
(* from_calculated, in the order of its code.                              *)

NoError == [tag |-> "NoError"]

\* (variant: only the Unlimited mode goes unvalidated)
validate_unless_unlimited(calculation_mode, han, fu, honbas) ==
    IF calculation_mode # "Unlimited"
    THEN IF han < 1 THEN Err("InvalidHan", han)
         ELSE IF fu \notin {20, 25, 30, 40, 50, 60, 70, 80, 90, 100, 110}
              THEN Err("InvalidFu", fu)
         ELSE IF honbas < 0 THEN Err("InvalidHonbas", honbas)
         ELSE NoError
    ELSE NoError

\* (variant: fu and honbas go unchecked once han reaches the tiers, where the
\* score does not depend on fu)
validate_below_tiers(calculation_mode, han, fu, honbas) ==
    IF calculation_mode = "Default"
    THEN IF han < 1 THEN Err("InvalidHan", han)
         ELSE IF han >= 5 THEN NoError
         ELSE IF fu \notin {20, 25, 30, 40, 50, 60, 70, 80, 90, 100, 110}
              THEN Err("InvalidFu", fu)
         ELSE IF honbas < 0 THEN Err("InvalidHonbas", honbas)
         ELSE NoError
    ELSE NoError

\* the validation of the Default mode
validate(calculation_mode, han, fu, honbas) ==
    IF calculation_mode = "Default"
    THEN IF han < 1 THEN Err("InvalidHan", han)
         ELSE IF fu \notin VALID_FU THEN Err("InvalidFu", fu)
         ELSE IF honbas < 0 THEN Err("InvalidHonbas", honbas)
         ELSE NoError
    ELSE NoError

NoTier == [tag |-> "NoTier"]

\* (variant: the tiers applied in every mode)
tier_in_every_mode(calculation_mode, han, honbas) ==
    IF han = 5 THEN Ok([base_points |-> 2000, mode |-> [kind |-> "Limited"],
                        honbas |-> honbas])
    ELSE IF han \in 6..7 THEN Ok([base_points |-> 3000,
                                  mode |-> [kind |-> "Limited"], honbas |-> honbas])
    ELSE IF han \in 8..10 THEN Ok([base_points |-> 4000,
                                   mode |-> [kind |-> "Limited"], honbas |-> honbas])
    ELSE IF han \in 11..12 THEN Ok([base_points |-> 6000,
                                    mode |-> [kind |-> "Limited"], honbas |-> honbas])
    ELSE IF han >= 13 THEN Ok([base_points |-> 8000,
                               mode |-> [kind |-> "Limited"], honbas |-> honbas])
    ELSE NoTier

\* the tier short-circuit, skipped in Unlimited mode
\* (variant: the tiers applied in Default mode only)
tier_default_only(calculation_mode, han, honbas) ==
    IF calculation_mode = "Default"
    THEN IF han = 5 THEN Ok(mangan(honbas))
         ELSE IF han \in 6..7 THEN Ok(haneman(honbas))
         ELSE IF han \in 8..10 THEN Ok(baiman(honbas))
         ELSE IF han \in 11..12 THEN Ok(sanbaiman(honbas))
         ELSE IF han >= 13 THEN Ok(yakuman(honbas))
         ELSE NoTier
    ELSE NoTier

tier(calculation_mode, han, honbas) ==
    IF calculation_mode # "Unlimited"
    THEN IF han \in MANGAN_HAN_RANGE THEN Ok(mangan(honbas))
         ELSE IF han \in HANEMAN_HAN_RANGE THEN Ok(haneman(honbas))
         ELSE IF han \in BAIMAN_HAN_RANGE THEN Ok(baiman(honbas))
         ELSE IF han \in SANBAIMAN_HAN_RANGE THEN Ok(sanbaiman(honbas))
         ELSE IF han \in KAZOE_YAKUMAN_HAN_RANGE THEN Ok(yakuman(honbas))
         ELSE NoTier
    ELSE NoTier

\* const MIN_USABLE_HAN: i32 = -(i32::BITS as i32)
MIN_USABLE_HAN == -32

\* (variant: a non-positive fu rounded down)
shifted_floor(fu, shift) ==
    IF shift >= 31
    THEN IF fu > 0 THEN 1 ELSE IF fu < 0 THEN -1 ELSE 0
    ELSE LET multiplier == Pow2(shift)
         IN  IF fu > 0
             THEN (fu \div multiplier) + (IF fu % multiplier # 0 THEN 1 ELSE 0)
             ELSE fu \div multiplier

\* The i64 branch for power <= 0: shift = -max(power, MIN_USABLE_HAN) and
\* multiplier = 2^shift.  For shift >= 31 the multiplier exceeds every |fu|
\* of an i32 (but fu = i32::MIN at shift 31), so the quotient is written out.
shifted(fu, shift) ==
    IF shift >= 31
    THEN IF fu > 0 THEN 1
         ELSE IF fu = I32_MIN /\ shift = 31 THEN -1 ELSE 0
    ELSE LET multiplier == Pow2(shift)
         IN  IF fu > 0
             THEN \* (fu + multiplier - 1) / multiplier, in i64
                  (fu \div multiplier) + (IF fu % multiplier # 0 THEN 1 ELSE 0)
             ELSE TruncDiv(fu, multiplier)

points_base(han, fu) ==
    LET power == han + 2
    IN  IF power > 0
        THEN Pow2(power) * fu
        ELSE shifted(fu, -Max(power, MIN_USABLE_HAN))

\* (variant: the limit taken as mangan's own base points)
MANGAN_BASE_LIMIT_round == 8000 \div 4
\* (variant: the limit above mangan's own base points)
MANGAN_BASE_LIMIT_high == 8100 \div 4
\* 7900 / 4
MANGAN_BASE_LIMIT == 7900 \div 4

\* (variant: the table's gaps applied in Loose mode as well)
val_has_tsumo_loose_gaps(calculation_mode, han, fu) ==
    calculation_mode = "Unlimited" \/ has_tsumo(han, fu)

val_has_tsumo(calculation_mode, han, fu) ==
    calculation_mode # "Default" \/ has_tsumo(han, fu)

\* (variant: the table's gaps applied in Loose mode as well)
val_has_ron_loose_gaps(calculation_mode, han, fu) ==
    calculation_mode = "Unlimited" \/ has_ron(han, fu)

val_has_ron(calculation_mode, han, fu) ==
    calculation_mode # "Default" \/ has_ron(han, fu)

from_calculated(calculation_mode, han, fu, honbas) ==
    LET invalid == validate(calculation_mode, han, fu, honbas)
        limited == tier(calculation_mode, han, honbas)
        base == points_base(han, fu)
    IN  IF invalid # NoError THEN invalid
        ELSE IF limited # NoTier THEN limited
        ELSE IF calculation_mode # "Unlimited" /\ base >= MANGAN_BASE_LIMIT
        THEN Ok(mangan(honbas))
        ELSE Ok(new_calculated(base,
                               val_has_tsumo(calculation_mode, han, fu),
                               val_has_ron(calculation_mode, han, fu),
                               honbas))

-----------------------------------------------------------------------------
(* Rounding and the payment accessors.                                     *)

round_up_to(num, divisor) ==
    IF num > 0
    THEN TruncDiv(num + (divisor - 1), divisor) * divisor
    ELSE TruncDiv(num, divisor) * divisor

round_up_points(num) == round_up_to(num, 100)

\* (variant: a negative honba counter pays nothing)
tsumo_honba_points_unsigned(self) == Max(self.honbas, 0) * 100

tsumo_honba_points(self) == self.honbas * 100

\* (variant: the tsumo bonus used for ron)
ron_honba_points_as_tsumo(self) == self.honbas * 100

ron_honba_points(self) == self.honbas * 300

is_limited(self) == self.mode.kind = "Limited"

\* (variant: a value with a defined payment counts as calculated)
is_calculated_by_payments(self) ==
    PointsMode_has_tsumo(self.mode) \/ PointsMode_has_ron(self.mode)

is_calculated(self) == self.mode.kind = "Calculated"

honbas_of(self) == self.honbas

oya_tsumo(self) ==
    IF PointsMode_has_tsumo(self.mode)
    THEN Some(round_up_points(self.base_points * 2) + tsumo_honba_points(self))
    ELSE None

oya_ron(self) ==
    IF PointsMode_has_ron(self.mode)
    THEN Some(round_up_points(self.base_points * 6) + ron_honba_points(self))
    ELSE None

\* (variant: the dealer's share is the doubled non-dealer share)
ko_tsumo_doubled(self) ==
    IF PointsMode_has_tsumo(self.mode)
    THEN LET honba_points == tsumo_honba_points(self)
             value_ko == round_up_points(self.base_points) + honba_points
             value_oya == round_up_points(self.base_points) * 2 + honba_points
         IN  Some(<<value_ko, value_oya>>)
    ELSE None

ko_tsumo(self) ==
    IF PointsMode_has_tsumo(self.mode)
    THEN LET honba_points == tsumo_honba_points(self)
             value_ko == round_up_points(self.base_points) + honba_points
             value_oya == round_up_points(self.base_points * 2) + honba_points
         IN  Some(<<value_ko, value_oya>>)
    ELSE None

\* (variant: a missing ron value reported as zero points)
ko_ron_or_default(self) ==
    IF PointsMode_has_ron(self.mode)
    THEN Some(round_up_points(self.base_points * 4) + ron_honba_points(self))
    ELSE Some(0)

ko_ron(self) ==
    IF PointsMode_has_ron(self.mode)
    THEN Some(round_up_points(self.base_points * 4) + ron_honba_points(self))
    ELSE None

\* Display for Han, Fu, Honbas and PointCalculationError: the text written
\* before the number, the number, and the unit written after it.
Display_error(e) ==
    IF e.error = "InvalidHan"
    THEN [text |-> "Han cannot be less than 1: ", number |-> e.value, unit |-> " han"]
    ELSE IF e.error = "InvalidFu"
    THEN [text |-> "Invalid fu value: ", number |-> e.value, unit |-> " fu"]
    ELSE [text |-> "Invalid honba count: ", number |-> e.value, unit |-> " honbas"]

-----------------------------------------------------------------------------
(* The requests explored.                                                  *)

Modes == {"Default", "Loose", "Unlimited"}

\* han far outside the table, as in the tests (-10000, 100)
ExtremeHan == {-10000, -33, 100}
HanValues == ((-MaxNegHan)..MaxHan) \cup ExtremeHan

\* the valid fu, and fu Default rejects: negative, zero, off the table, above
\* it, and values around the 1975 limit at han 4, -2 and -3
InvalidFuValues == {-100, -30, 0, 1, 13, 31, 35, 150, 1974, 1975, 3948, 3949}
FuValues == VALID_FU \cup InvalidFuValues

HonbasValues == (-MaxNegHonbas)..MaxHonbas

\* base points given to new_limited / new_calculated directly
BasePointsValues == {-1920, -25, 0, 1, 320, 1920, 2000, 8000}

\* The largest base points whose payments (x 6, + 99, + honba x 300) stay
\* inside the i32 range for the explored honbas.
MaxBasePoints == (I32_MAX - 99 - 300 * (MaxHonbas + 1)) \div 6

\* from_calculated requests whose general formula stays below MaxBasePoints
InRange(calculation_mode, han, fu) ==
    \/ han + 2 <= 0
    \/ calculation_mode # "Unlimited" /\ han >= 5
    \/ /\ han + 2 <= MaxHan + 3
       /\ (IF fu >= 0 THEN fu ELSE -fu) <= MaxBasePoints \div Pow2(han + 2)

Requests ==
    {[op |-> "from_calculated", calculation_mode |-> m, han |-> h, fu |-> f,
      honbas |-> b] :
        m \in Modes, h \in HanValues, f \in FuValues, b \in HonbasValues}
    \cup
    {[op |-> "new_calculated", base_points |-> p, has_tsumo |-> t,
      has_ron |-> r, honbas |-> b] :
        p \in BasePointsValues, t \in BOOLEAN, r \in BOOLEAN, b \in HonbasValues}
    \cup
    {[op |-> "new_limited", base_points |-> p, honbas |-> b] :
        p \in BasePointsValues, b \in HonbasValues}
    \cup
    {[op |-> o, honbas |-> b] :
        o \in {"mangan", "haneman", "baiman", "sanbaiman", "yakuman"},
        b \in HonbasValues}

Pending == [tag |-> "Pending"]
NotCalled == [tag |-> "NotCalled"]
Returned(v) == [tag |-> "Returned", value |-> v]

Accessors == {"oya_tsumo", "oya_ron", "ko_tsumo", "ko_ron"}

Queries == {"is_limited", "is_calculated", "honbas"}

\* A caller either asks the value for its payments or inspects it.
NoPayments == [a \in Accessors |-> NotCalled]

NoQueries == [q \in Queries |-> NotCalled]

\* no hand is being parsed
ParserIdle ==
    /\ hand = <<>>
    /\ groups = <<>>
    /\ new_tiles = <<>>
    /\ parsed = NotCalled
    /\ tile = NotCalled

Init ==
    /\ request \in Requests
    /\ request.op = "from_calculated"
          => InRange(request.calculation_mode, request.han, request.fu)
    /\ points = Pending
    /\ payments = NoPayments
    /\ queries = NoQueries
    /\ message = NotCalled
    /\ ParserIdle
    /\ rounded = <<>>

-----------------------------------------------------------------------------
(* The constructors.                                                       *)

FromCalculated ==
    /\ points = Pending
    /\ request.op = "from_calculated"
    /\ points' = from_calculated(request.calculation_mode, request.han,
                                 request.fu, request.honbas)
    /\ UNCHANGED <<request, payments, queries, message, parser_vars, rounded>>

NewLimited ==
    /\ points = Pending
    /\ request.op = "new_limited"
    /\ points' = Ok(new_limited(request.base_points, request.honbas))
    /\ UNCHANGED <<request, payments, queries, message, parser_vars, rounded>>

NewCalculated ==
    /\ points = Pending
    /\ request.op = "new_calculated"
    /\ points' = Ok(new_calculated(request.base_points, request.has_tsumo,
                                   request.has_ron, request.honbas))
    /\ UNCHANGED <<request, payments, queries, message, parser_vars, rounded>>

Mangan ==
    /\ points = Pending
    /\ request.op = "mangan"
    /\ points' = Ok(mangan(request.honbas))
    /\ UNCHANGED <<request, payments, queries, message, parser_vars, rounded>>

Haneman ==
    /\ points = Pending
    /\ request.op = "haneman"
    /\ points' = Ok(haneman(request.honbas))
    /\ UNCHANGED <<request, payments, queries, message, parser_vars, rounded>>

Baiman ==
    /\ points = Pending
    /\ request.op = "baiman"
    /\ points' = Ok(baiman(request.honbas))
    /\ UNCHANGED <<request, payments, queries, message, parser_vars, rounded>>

Sanbaiman ==
    /\ points = Pending
    /\ request.op = "sanbaiman"
    /\ points' = Ok(sanbaiman(request.honbas))
    /\ UNCHANGED <<request, payments, queries, message, parser_vars, rounded>>

Yakuman ==
    /\ points = Pending
    /\ request.op = "yakuman"
    /\ points' = Ok(yakuman(request.honbas))
    /\ UNCHANGED <<request, payments, queries, message, parser_vars, rounded>>

(* The queries on the value returned.                                      *)

OyaTsumo ==
    /\ points.tag = "Ok"
    /\ queries = NoQueries
    /\ payments["oya_tsumo"] = NotCalled
    /\ payments' = [payments EXCEPT !["oya_tsumo"] = Returned(oya_tsumo(points.value))]
    /\ UNCHANGED <<request, points, queries, message, parser_vars, rounded>>

OyaRon ==
    /\ points.tag = "Ok"
    /\ queries = NoQueries
    /\ payments["oya_ron"] = NotCalled
    /\ payments' = [payments EXCEPT !["oya_ron"] = Returned(oya_ron(points.value))]
    /\ UNCHANGED <<request, points, queries, message, parser_vars, rounded>>

KoTsumo ==
    /\ points.tag = "Ok"
    /\ queries = NoQueries
    /\ payments["ko_tsumo"] = NotCalled
    /\ payments' = [payments EXCEPT !["ko_tsumo"] = Returned(ko_tsumo(points.value))]
    /\ UNCHANGED <<request, points, queries, message, parser_vars, rounded>>

KoRon ==
    /\ points.tag = "Ok"
    /\ queries = NoQueries
    /\ payments["ko_ron"] = NotCalled
    /\ payments' = [payments EXCEPT !["ko_ron"] = Returned(ko_ron(points.value))]
    /\ UNCHANGED <<request, points, queries, message, parser_vars, rounded>>

IsLimited ==
    /\ points.tag = "Ok"
    /\ payments = NoPayments
    /\ queries["is_limited"] = NotCalled
    /\ queries' = [queries EXCEPT !["is_limited"] = Returned(is_limited(points.value))]
    /\ UNCHANGED <<request, points, payments, message, parser_vars, rounded>>

IsCalculated ==
    /\ points.tag = "Ok"
    /\ payments = NoPayments
    /\ queries["is_calculated"] = NotCalled
    /\ queries' = [queries EXCEPT !["is_calculated"] = Returned(is_calculated(points.value))]
    /\ UNCHANGED <<request, points, payments, message, parser_vars, rounded>>

HonbasOf ==
    /\ points.tag = "Ok"
    /\ payments = NoPayments
    /\ queries["honbas"] = NotCalled
    /\ queries' = [queries EXCEPT !["honbas"] = Returned(honbas_of(points.value))]
    /\ UNCHANGED <<request, points, payments, message, parser_vars, rounded>>

\* to_string() of the error returned
ErrorToString ==
    /\ points.tag = "Err"
    /\ message = NotCalled
    /\ message' = Returned(Display_error(points))
    /\ UNCHANGED <<request, points, payments, queries, parser_vars, rounded>>

Next ==
    \/ FromCalculated
    \/ NewLimited
    \/ NewCalculated
    \/ Mangan
    \/ Haneman
    \/ Baiman
    \/ Sanbaiman
    \/ Yakuman
    \/ OyaTsumo
    \/ OyaRon
    \/ KoTsumo
    \/ KoRon
    \/ IsLimited
    \/ IsCalculated
    \/ HonbasOf
    \/ ErrorToString

Spec == Init /\ [][Next]_vars

-----------------------------------------------------------------------------
(* The scoring engine over the 32-bit signed integer (Points =             *)
(* PointsCustom<i32>).                                                     *)
(*                                                                         *)
(* Every arithmetic step on i32 is modelled by its checked form: it gives  *)
(* Some(value) when the value is inside the i32 range and None when it is  *)
(* not, in which case the build either panics (overflow checks on) or      *)
(* wraps around (overflow checks off).  The operands are above i32::MIN.   *)

Abs(a) == IF a >= 0 THEN a ELSE -a

\* a + b on i32
checked_add(a, b) ==
    IF \/ b > 0 /\ a > I32_MAX - b
       \/ b < 0 /\ a < I32_MIN - b
    THEN None
    ELSE Some(a + b)

\* a * b on i32
checked_mul(a, b) ==
    IF a = 0 \/ b = 0 THEN Some(0)
    ELSE LET most == I32_MAX \div Abs(b)
         IN  IF Abs(a) <= most THEN Some(a * b)
             ELSE IF /\ (a > 0) # (b > 0)
                     /\ Abs(a) = most + 1
                     /\ I32_MAX % Abs(b) = Abs(b) - 1
             THEN Some(I32_MIN)
             ELSE None

\* 2i32.pow(power)
checked_pow2(power) == IF power >= 31 THEN None ELSE Some(Pow2(power))

\* the next step, when the steps before it stayed in range
and_then(x, step(_)) == IF x = None THEN None ELSE step(x[1])

\* longest distance from zero of the numbers rounded (plus EdgeNums)
MaxNum == 300

\* divisors 1 .. MaxDivisor are explored (plus 100)
MaxDivisor == 7

\* (variant: a number that is not positive rounded away from zero)
round_up_to_i32_down(num, divisor) ==
    IF num > 0
    THEN and_then(and_then(checked_add(num, divisor - 1),
                           LAMBDA sum : Some(TruncDiv(sum, divisor))),
                  LAMBDA quotient : checked_mul(quotient, divisor))
    ELSE checked_mul(num \div divisor, divisor)

round_up_to_i32(num, divisor) ==
    IF num > 0
    THEN and_then(and_then(checked_add(num, divisor - 1),
                           LAMBDA sum : Some(TruncDiv(sum, divisor))),
                  LAMBDA quotient : checked_mul(quotient, divisor))
    ELSE checked_mul(TruncDiv(num, divisor), divisor)

\* (variant: a multiple of 100 rounded up to the next one)
round_up_points_i32_next(num) ==
    and_then(checked_add(num, 1), LAMBDA above : round_up_to_i32(above, 100))

round_up_points_i32(num) == round_up_to_i32(num, 100)

\* numbers at the ends of the i32 range
EdgeNums ==
    {-I32_MAX, I32_MAX - 147, I32_MAX - 146, I32_MAX - 100, I32_MAX - 99,
     I32_MAX - 98, I32_MAX - 1, I32_MAX}

NumValues == ((-MaxNum)..MaxNum) \cup {-1920, -1900, 1920, 7900} \cup EdgeNums

DivisorValues == (1..MaxDivisor) \cup {100}

RoundingRequests ==
    {[op |-> "round_up_to", num |-> n, divisor |-> d] :
        n \in NumValues, d \in DivisorValues}
    \cup
    {[op |-> "round_up_points", num |-> n] : n \in NumValues}

RoundUpTo ==
    /\ request.op = "round_up_to"
    /\ rounded = <<>>
    /\ rounded' = <<round_up_to_i32(request.num, request.divisor)>>
    /\ UNCHANGED <<points_vars, parser_vars>>

RoundUpPoints ==
    /\ request.op = "round_up_points"
    /\ rounded = <<>>
    /\ rounded' = <<round_up_points_i32(request.num)>>
    /\ UNCHANGED <<points_vars, parser_vars>>

\* the same rounding applied to the number it returned
RoundUpToAgain ==
    /\ request.op = "round_up_to"
    /\ Len(rounded) = 1
    /\ rounded[1] # None
    /\ rounded' = Append(rounded, round_up_to_i32(rounded[1][1], request.divisor))
    /\ UNCHANGED <<points_vars, parser_vars>>

RoundUpPointsAgain ==
    /\ request.op = "round_up_points"
    /\ Len(rounded) = 1
    /\ rounded[1] # None
    /\ rounded' = Append(rounded, round_up_points_i32(rounded[1][1]))
    /\ UNCHANGED <<points_vars, parser_vars>>

\* the step left the i32 range
Overflow == [tag |-> "Overflow"]

points_base_i32(han, fu) ==
    and_then(checked_add(han, 2),
             LAMBDA power :
                 IF power > 0
                 THEN and_then(checked_pow2(power),
                               LAMBDA multiplier : checked_mul(multiplier, fu))
                 ELSE Some(shifted(fu, -Max(power, MIN_USABLE_HAN))))

from_calculated_i32(calculation_mode, han, fu, honbas) ==
    LET invalid == validate(calculation_mode, han, fu, honbas)
        limited == tier(calculation_mode, han, honbas)
        base == points_base_i32(han, fu)
    IN  IF invalid # NoError THEN invalid
        ELSE IF limited # NoTier THEN limited
        ELSE IF base = None THEN Overflow
        ELSE IF calculation_mode # "Unlimited" /\ base[1] >= MANGAN_BASE_LIMIT
        THEN Ok(mangan(honbas))
        ELSE Ok(new_calculated(base[1],
                               val_has_tsumo(calculation_mode, han, fu),
                               val_has_ron(calculation_mode, han, fu),
                               honbas))

tsumo_honba_points_i32(self) == checked_mul(self.honbas, 100)

ron_honba_points_i32(self) == checked_mul(self.honbas, 300)

\* round_up_points(base_points * factor) + honba_points
payment_i32(self, factor, honba_points) ==
    and_then(and_then(checked_mul(self.base_points, factor), round_up_points_i32),
             LAMBDA value :
                 and_then(honba_points, LAMBDA bonus : checked_add(value, bonus)))

\* what an accessor gives for the payment computed
returned_i32(value) == IF value = None THEN Overflow ELSE Returned(value)

oya_tsumo_i32(self) ==
    IF PointsMode_has_tsumo(self.mode)
    THEN returned_i32(payment_i32(self, 2, tsumo_honba_points_i32(self)))
    ELSE Returned(None)

oya_ron_i32(self) ==
    IF PointsMode_has_ron(self.mode)
    THEN returned_i32(payment_i32(self, 6, ron_honba_points_i32(self)))
    ELSE Returned(None)

ko_tsumo_i32(self) ==
    IF PointsMode_has_tsumo(self.mode)
    THEN LET honba_points == tsumo_honba_points_i32(self)
             value_ko == and_then(round_up_points_i32(self.base_points),
                                  LAMBDA value :
                                      and_then(honba_points,
                                               LAMBDA bonus : checked_add(value, bonus)))
             value_oya == payment_i32(self, 2, honba_points)
         IN  IF value_ko = None \/ value_oya = None THEN Overflow
             ELSE Returned(Some(<<value_ko[1], value_oya[1]>>))
    ELSE Returned(None)

ko_ron_i32(self) ==
    IF PointsMode_has_ron(self.mode)
    THEN returned_i32(payment_i32(self, 4, ron_honba_points_i32(self)))
    ELSE Returned(None)

\* han, fu and honbas up to the ends of the i32 range
I32HanValues ==
    {-3, 0, 1, 2, 3, 4, 5, 12, 13, 20, 28, 29, 30,
     I32_MAX - 2, I32_MAX - 1, I32_MAX}

I32FuValues == VALID_FU \cup {-30, 0, 1975}

\* around the largest honbas whose bonus and payments fit an i32
I32HonbasValues ==
    {-1, 0, 1, 7158118, 7158119, 7158278, 7158279, 21474836, 21474837, I32_MAX}

I32Requests ==
    {[op |-> "from_calculated", calculation_mode |-> m, han |-> h, fu |-> f,
      honbas |-> b] :
        m \in Modes, h \in I32HanValues, f \in I32FuValues, b \in I32HonbasValues}

I32Init ==
    /\ request \in I32Requests \cup RoundingRequests
    /\ points = Pending
    /\ payments = NoPayments
    /\ queries = NoQueries
    /\ message = NotCalled
    /\ ParserIdle
    /\ rounded = <<>>

FromCalculatedI32 ==
    /\ points = Pending
    /\ request.op = "from_calculated"
    /\ points' = from_calculated_i32(request.calculation_mode, request.han,
                                     request.fu, request.honbas)
    /\ UNCHANGED <<request, payments, queries, message, parser_vars, rounded>>

OyaTsumoI32 ==
    /\ points.tag = "Ok"
    /\ payments["oya_tsumo"] = NotCalled
    /\ payments' = [payments EXCEPT !["oya_tsumo"] = oya_tsumo_i32(points.value)]
    /\ UNCHANGED <<request, points, queries, message, parser_vars, rounded>>

OyaRonI32 ==
    /\ points.tag = "Ok"
    /\ payments["oya_ron"] = NotCalled
    /\ payments' = [payments EXCEPT !["oya_ron"] = oya_ron_i32(points.value)]
    /\ UNCHANGED <<request, points, queries, message, parser_vars, rounded>>

KoTsumoI32 ==
    /\ points.tag = "Ok"
    /\ payments["ko_tsumo"] = NotCalled
    /\ payments' = [payments EXCEPT !["ko_tsumo"] = ko_tsumo_i32(points.value)]
    /\ UNCHANGED <<request, points, queries, message, parser_vars, rounded>>

KoRonI32 ==
    /\ points.tag = "Ok"
    /\ payments["ko_ron"] = NotCalled
    /\ payments' = [payments EXCEPT !["ko_ron"] = ko_ron_i32(points.value)]
    /\ UNCHANGED <<request, points, queries, message, parser_vars, rounded>>

I32Next ==
    \/ FromCalculatedI32
    \/ OyaTsumoI32
    \/ OyaRonI32
    \/ KoTsumoI32
    \/ KoRonI32
    \/ RoundUpTo
    \/ RoundUpPoints
    \/ RoundUpToAgain
    \/ RoundUpPointsAgain

I32Spec == I32Init /\ [][I32Next]_vars

-----------------------------------------------------------------------------
(* The hand parser (src/src/parser.rs) and the tiles it builds             *)
(* (src/src/hand.rs, src/src/tiles.rs).                                    *)
(*                                                                         *)
(* One behaviour is one call of HandParser::parse: the loop of             *)
(* parse_internal reads the input one character at a time (hand is the     *)
(* part read so far), each character is handled by its handler, and the    *)
(* input ends after at most MaxLen characters.  A behaviour may instead be *)
(* one direct call of Tile::new.                                           *)

\* longest input explored
MaxLen == 5

\* TileValue wraps a u8; values 0 .. MaxTileValue are explored
MaxTileValue == 10

Suites == {"Manzu", "Pinzu", "Souzu", "Honor", "Any"}

\* (variant: the honor tiles numbered like the suited ones)
Tile_new_honor_from_zero(suite, value) ==
    LET range == IF suite \in {"Manzu", "Pinzu", "Souzu"} THEN 0..9
                 ELSE IF suite = "Honor" THEN 0..7
                 ELSE 0..0
    IN  IF value \in range
        THEN Ok([suite |-> suite, value |-> value])
        ELSE Err("InvalidTileError", [suite |-> suite, value |-> value])

Tile_new(suite, value) ==
    LET range == IF suite \in {"Manzu", "Pinzu", "Souzu"} THEN 0..9
                 ELSE IF suite = "Honor" THEN 1..7
                 ELSE 0..0
    IN  IF value \in range
        THEN Ok([suite |-> suite, value |-> value])
        ELSE Err("InvalidTileError", [suite |-> suite, value |-> value])

TON == [suite |-> "Honor", value |-> 1]
NAN == [suite |-> "Honor", value |-> 2]
SHAA == [suite |-> "Honor", value |-> 3]
PEI == [suite |-> "Honor", value |-> 4]
HAKU == [suite |-> "Honor", value |-> 5]
HATSU == [suite |-> "Honor", value |-> 6]
CHUN == [suite |-> "Honor", value |-> 7]
ANY == [suite |-> "Any", value |-> 0]

\* (variant: a placement that only toggles the rotation)
TilePlacement_toggle(self) ==
    IF self = "Normal" THEN "Rotated" ELSE "Normal"

TilePlacement_next(self) ==
    IF self = "Normal" THEN "Rotated"
    ELSE IF self = "Rotated" THEN "RotatedAndShifted"
    ELSE "Normal"

HandTile_new(tile_, placement) == [tile |-> tile_, placement |-> placement]

Hand_new(groups_) == [groups |-> groups_]

\* the characters of the notation
VALUE_CHARS == <<"0", "1", "2", "3", "4", "5", "6", "7", "8", "9">>
SUITE_CHARS == {"m", "p", "s", "z"}
SPECIAL_CHARS == {"E", "S", "W", "N", "w", "g", "r", "?"}
POSITION_MODIFIERS == {"*", "'"}
GROUP_SEPARATOR == "_"

IsValue(char) == \E i \in DOMAIN VALUE_CHARS : VALUE_CHARS[i] = char

\* the characters the explored inputs are written with; "X" is a character
\* outside the notation
InputChars == {"0", "1", "8", "m", "p", "z", "E", "?", "*", "'", "_", "X"}

\* HandParser { groups, new_tiles }
HandParser_new == [groups |-> << <<>> >>, new_tiles |-> <<>>]

HandParseError_new(position, error_type) ==
    [tag |-> "Err", position |-> position, error_type |-> error_type]

add_tile(self, tile_, placement) ==
    [self EXCEPT !.groups[Len(self.groups)] = Append(@, HandTile_new(tile_, placement))]

add_temp_tile(self, tile_, placement) ==
    Ok([self EXCEPT !.new_tiles =
            Append(@, [suite |-> Some(tile_.suite), value |-> tile_.value,
                       placement |-> placement])])

\* the loop of add_remaining_tiles over the tiles swapped out of self
RECURSIVE add_each_tile(_, _)
add_each_tile(self, tiles) ==
    IF tiles = <<>> THEN Ok(self)
    ELSE LET actual == Head(tiles) IN
         IF actual.suite = None THEN Err("UnfinishedSuite", self)
         ELSE LET made == Tile_new(actual.suite[1], actual.value) IN
              IF made.tag = "Err" THEN Err("InvalidValue", self)
              ELSE add_each_tile(add_tile(self, made.value, actual.placement),
                                 Tail(tiles))

add_remaining_tiles(self) ==
    add_each_tile([self EXCEPT !.new_tiles = <<>>], self.new_tiles)

handle_value(self, number) ==
    LET value == (CHOOSE i \in DOMAIN VALUE_CHARS : VALUE_CHARS[i] = number) - 1
    IN  Ok([self EXCEPT !.new_tiles =
                Append(@, [suite |-> None, value |-> value, placement |-> "Normal"])])

handle_suite(self, suite_char) ==
    LET suite == IF suite_char = "m" THEN "Manzu"
                 ELSE IF suite_char = "p" THEN "Pinzu"
                 ELSE IF suite_char = "s" THEN "Souzu"
                 ELSE "Honor"
        unwrap_or(tile_suite) == IF tile_suite = None THEN suite ELSE tile_suite[1]
    IN  add_remaining_tiles(
            [self EXCEPT !.new_tiles =
                [i \in DOMAIN @ |-> [@[i] EXCEPT !.suite = Some(unwrap_or(@))]]])

handle_special_symbol(self, honor) ==
    IF honor = "E" THEN add_temp_tile(self, TON, "Normal")
    ELSE IF honor = "S" THEN add_temp_tile(self, NAN, "Normal")
    ELSE IF honor = "W" THEN add_temp_tile(self, SHAA, "Normal")
    ELSE IF honor = "N" THEN add_temp_tile(self, PEI, "Normal")
    ELSE IF honor = "w" THEN add_temp_tile(self, HAKU, "Normal")
    ELSE IF honor = "g" THEN add_temp_tile(self, HATSU, "Normal")
    ELSE IF honor = "r" THEN add_temp_tile(self, CHUN, "Normal")
    ELSE add_temp_tile(self, ANY, "Normal")

\* (variant: a modifier with no tile to apply to is skipped)
handle_position_modifier_lenient(self) ==
    IF self.new_tiles # <<>>
    THEN Ok([self EXCEPT !.new_tiles[Len(self.new_tiles)].placement =
                 TilePlacement_next(@)])
    ELSE Ok(self)

handle_position_modifier(self) ==
    IF self.new_tiles # <<>>
    THEN Ok([self EXCEPT !.new_tiles[Len(self.new_tiles)].placement =
                 TilePlacement_next(@)])
    ELSE Err("PositionModifierWithNoTile", self)

\* (variant: a separator after an empty group opens no new group)
handle_group_separator_merging(self) ==
    LET added == add_remaining_tiles(self) IN
    IF added.tag = "Err" THEN added
    ELSE IF added.value.groups[Len(added.value.groups)] = <<>> THEN added
    ELSE Ok([added.value EXCEPT !.groups = Append(@, <<>>)])

handle_group_separator(self) ==
    LET added == add_remaining_tiles(self) IN
    IF added.tag = "Err" THEN added
    ELSE Ok([added.value EXCEPT !.groups = Append(@, <<>>)])

\* the requests of the parser: a string to parse, or a tile to make
ParserRequests ==
    {[op |-> "parse"]}
    \cup
    {[op |-> "Tile_new", suite |-> su, value |-> v] :
        su \in Suites, v \in 0..MaxTileValue}

ParserInit ==
    /\ request \in ParserRequests
    /\ points = Pending
    /\ payments = NoPayments
    /\ queries = NoQueries
    /\ message = NotCalled
    /\ hand = <<>>
    /\ groups = HandParser_new.groups
    /\ new_tiles = HandParser_new.new_tiles
    /\ parsed = Pending
    /\ tile = NotCalled
    /\ rounded = <<>>

\* the parser as parse_internal holds it
Self == [groups |-> groups, new_tiles |-> new_tiles]

\* one turn of the loop of parse_internal: char is at position Len(hand) and
\* result is what its handler returned
Step(char, result) ==
    /\ hand' = Append(hand, char)
    /\ groups' = result.value.groups
    /\ new_tiles' = result.value.new_tiles
    /\ parsed' = IF result.tag = "Err"
                 THEN HandParseError_new(Len(hand), result.error)
                 ELSE parsed
    /\ UNCHANGED <<points_vars, rounded, tile>>

\* the loop is running and the input has a next character
Reading ==
    /\ request.op = "parse"
    /\ parsed = Pending
    /\ Len(hand) < MaxLen

HandleValue ==
    /\ Reading
    /\ \E char \in InputChars :
         /\ IsValue(char)
         /\ Step(char, handle_value(Self, char))

HandleSuite ==
    /\ Reading
    /\ \E char \in InputChars \cap SUITE_CHARS :
         Step(char, handle_suite(Self, char))

HandleSpecialSymbol ==
    /\ Reading
    /\ \E char \in InputChars \cap SPECIAL_CHARS :
         Step(char, handle_special_symbol(Self, char))

HandlePositionModifier ==
    /\ Reading
    /\ \E char \in InputChars \cap POSITION_MODIFIERS :
         Step(char, handle_position_modifier(Self))

HandleGroupSeparator ==
    /\ Reading
    /\ \E char \in InputChars \cap {GROUP_SEPARATOR} :
         Step(char, handle_group_separator(Self))

\* the `_ =>` arm of the match
InvalidCharacter ==
    /\ Reading
    /\ \E char \in InputChars :
         /\ ~IsValue(char)
         /\ char \notin SUITE_CHARS \cup SPECIAL_CHARS \cup POSITION_MODIFIERS
                          \cup {GROUP_SEPARATOR}
         /\ Step(char, Err("InvalidCharacter", Self))

\* hand.len(): every character that lets the loop run to the end of the input
\* is one byte long
str_len(hand_) == Len(hand_)

\* (variant: the end of the input reported at its last character)
EndOfInput_at_last ==
    /\ request.op = "parse"
    /\ parsed = Pending
    /\ LET result == add_remaining_tiles(Self) IN
         /\ groups' = result.value.groups
         /\ new_tiles' = result.value.new_tiles
         /\ parsed' = IF result.tag = "Err"
                      THEN HandParseError_new(str_len(hand) - 1, result.error)
                      ELSE Ok(Hand_new(result.value.groups))
    /\ UNCHANGED <<points_vars, rounded, hand, tile>>

\* the input has no further character: the code after the loop
EndOfInput ==
    /\ request.op = "parse"
    /\ parsed = Pending
    /\ LET result == add_remaining_tiles(Self) IN
         /\ groups' = result.value.groups
         /\ new_tiles' = result.value.new_tiles
         /\ parsed' = IF result.tag = "Err"
                      THEN HandParseError_new(str_len(hand), result.error)
                      ELSE Ok(Hand_new(result.value.groups))
    /\ UNCHANGED <<points_vars, rounded, hand, tile>>

TileNew ==
    /\ request.op = "Tile_new"
    /\ tile = NotCalled
    /\ tile' = Returned(Tile_new(request.suite, request.value))
    /\ UNCHANGED <<points_vars, rounded, hand, groups, new_tiles, parsed>>

ParserNext ==
    \/ HandleValue
    \/ HandleSuite
    \/ HandleSpecialSymbol
    \/ HandlePositionModifier
    \/ HandleGroupSeparator
    \/ InvalidCharacter
    \/ EndOfInput
    \/ TileNew

ParserSpec == ParserInit /\ [][ParserNext]_vars

-----------------------------------------------------------------------------
(* Vocabulary of the properties.                                           *)

\* from_calculated was requested and has returned
Calculation == request.op = "from_calculated" /\ points # Pending

\* the accessor was called and returned v
Paid(a, v) == payments[a] = Returned(v)

\* every accessor called so far returned what `expected` gives for it
PaidAsExpected(expected) ==
    \A a \in Accessors : payments[a] # NotCalled => payments[a] = Returned(expected[a])

\* the 11 fu of the points table
TableFu == {20, 25, 30, 40, 50, 60, 70, 80, 90, 100, 110}

\* what Default mode accepts
Accepted(han, fu, honbas) == han >= 1 /\ fu \in TableFu /\ honbas >= 0

\* the smallest multiple of 100 that is >= x
Ceil100(x) == IF x >= 0 THEN ((x + 99) \div 100) * 100 ELSE -(((-x) \div 100) * 100)

\* the four payments of base points b with honba h, all defined
PaymentsOf(b, h) ==
    [oya_tsumo |-> Some(Ceil100(2 * b) + 100 * h),
     oya_ron   |-> Some(Ceil100(6 * b) + 300 * h),
     ko_tsumo  |-> Some(<<Ceil100(b) + 100 * h, Ceil100(2 * b) + 100 * h>>),
     ko_ron    |-> Some(Ceil100(4 * b) + 300 * h)]

-----------------------------------------------------------------------------
\* C1: in Default and Loose mode a han inside a tier range (Default: with valid
\* input) gives a Limited value with base points 2000 (han 5), 3000 (6-7),
\* 4000 (8-10), 6000 (11-12), 8000 (13 and above), whatever fu is; with honba 0
\* its payments are the tier's fixed payments.
TierBasePoints(han) ==
    IF han = 5 THEN 2000
    ELSE IF han <= 7 THEN 3000
    ELSE IF han <= 10 THEN 4000
    ELSE IF han <= 12 THEN 6000
    ELSE 8000

TierPayments(han) ==
    IF han = 5
    THEN [ko_tsumo |-> Some(<<2000, 4000>>), ko_ron |-> Some(8000),
          oya_ron |-> Some(12000), oya_tsumo |-> Some(4000)]
    ELSE IF han <= 7
    THEN [ko_tsumo |-> Some(<<3000, 6000>>), ko_ron |-> Some(12000),
          oya_ron |-> Some(18000), oya_tsumo |-> Some(6000)]
    ELSE IF han <= 10
    THEN [ko_tsumo |-> Some(<<4000, 8000>>), ko_ron |-> Some(16000),
          oya_ron |-> Some(24000), oya_tsumo |-> Some(8000)]
    ELSE IF han <= 12
    THEN [ko_tsumo |-> Some(<<6000, 12000>>), ko_ron |-> Some(24000),
          oya_ron |-> Some(36000), oya_tsumo |-> Some(12000)]
    ELSE [ko_tsumo |-> Some(<<8000, 16000>>), ko_ron |-> Some(32000),
          oya_ron |-> Some(48000), oya_tsumo |-> Some(16000)]

C1_TierGivesLimited ==
    (/\ Calculation
     /\ request.calculation_mode \in {"Default", "Loose"}
     /\ request.han >= 5
     /\ request.calculation_mode = "Default"
            => Accepted(request.han, request.fu, request.honbas))
    => /\ points.tag = "Ok"
       /\ points.value.mode = Limited
       /\ points.value.base_points = TierBasePoints(request.han)
       /\ request.honbas = 0 =>
            \A a \in {"ko_tsumo", "ko_ron", "oya_ron"} :
                payments[a] # NotCalled
                    => payments[a] = Returned(TierPayments(request.han)[a])

\* a Loose request of 13 han with a fu off the table came back as kazoe yakuman
C1_Witness ==
    /\ Calculation
    /\ request.calculation_mode = "Loose"
    /\ request.han = 13
    /\ request.fu = 35
    /\ request.honbas = 0
    /\ points.tag = "Ok"
    /\ points.value.base_points = 8000
    /\ Paid("ko_tsumo", Some(<<8000, 16000>>))
    /\ Paid("ko_ron", Some(32000))
    /\ Paid("oya_ron", Some(48000))

-----------------------------------------------------------------------------
\* C2 (amended): in Default and Loose mode with han below 5 the result is
\* Mangan exactly when the computed base points are >= 1975, and otherwise a
\* Calculated value with the computed base points, where the computed base
\* points are fu x 2^(han+2) for han >= -2 and, for han < -2, fu divided by
\* 2^(-(han+2)), rounded up when fu is positive and truncated toward zero
\* otherwise.  Default 4 han 30 fu stays Calculated with ko_ron 7700; 4 han
\* 40 fu, 4 han 60 fu, 3 han 100 fu and 3 han 110 fu are Mangan.
RoundedQuotient(fu, k) ==
    IF k > 30 THEN (IF fu > 0 THEN 1 ELSE 0)
    ELSE IF fu > 0 THEN ((fu - 1) \div (2 ^ k)) + 1
    ELSE -((-fu) \div (2 ^ k))

ComputedBasePoints(han, fu) ==
    IF han >= -2 THEN fu * (2 ^ (han + 2)) ELSE RoundedQuotient(fu, -(han + 2))

BelowTiers ==
    /\ Calculation
    /\ request.calculation_mode \in {"Default", "Loose"}
    /\ request.han < 5
    /\ points.tag = "Ok"

C2_ManganFromComputedBase ==
    /\ BelowTiers =>
         LET computed == ComputedBasePoints(request.han, request.fu)
         IN  IF computed >= 1975
             THEN points.value.mode = Limited /\ points.value.base_points = 2000
             ELSE /\ points.value.mode.kind = "Calculated"
                  /\ points.value.base_points = computed
    /\ (BelowTiers /\ request.calculation_mode = "Default") =>
         /\ (request.han = 4 /\ request.fu = 30) =>
              /\ points.value.mode.kind = "Calculated"
              /\ points.value.base_points = 1920
              /\ (request.honbas = 0 /\ payments["ko_ron"] # NotCalled)
                     => Paid("ko_ron", Some(7700))
         /\ <<request.han, request.fu>> \in
                {<<4, 40>>, <<4, 60>>, <<3, 100>>, <<3, 110>>}
              => points.value.mode = Limited /\ points.value.base_points = 2000

\* a Loose request of 4 han 31 fu (base 1984) came back as Mangan
C2_Witness ==
    /\ BelowTiers
    /\ request.calculation_mode = "Loose"
    /\ request.han = 4
    /\ request.fu = 31
    /\ request.honbas = 0
    /\ points.value.mode = Limited
    /\ points.value.base_points = 2000
    /\ Paid("ko_ron", Some(8000))

\* C2 as first stated: the computed base points are fu x 2^(han+2) itself, for
\* every han below 5.  For han < -2 the comparison and the equality are taken
\* over the rationals: with k = -(han+2), fu x 2^(han+2) >= 1975 is
\* fu >= 1975 x 2^k, and base = fu x 2^(han+2) is base x 2^k = fu.
C2_Original ==
    BelowTiers =>
        LET han == request.han
            fu == request.fu
            k == -(han + 2)
            reaches == IF han >= -2 THEN fu * (2 ^ (han + 2)) >= 1975
                       ELSE k <= 12 /\ fu >= 1975 * (2 ^ k)
            equals(b) == IF han >= -2 THEN b = fu * (2 ^ (han + 2))
                         ELSE IF k <= 12 THEN b * (2 ^ k) = fu
                         ELSE b = 0 /\ fu = 0
        IN  IF reaches
            THEN points.value.mode = Limited /\ points.value.base_points = 2000
            ELSE /\ points.value.mode.kind = "Calculated"
                 /\ equals(points.value.base_points)

-----------------------------------------------------------------------------
\* C3: in Default mode from_calculated returns an error exactly when han < 1,
\* or fu is not one of the 11 table values, or honba < 0; the error is
\* InvalidHan, InvalidFu or InvalidHonbas for the input that is wrong, carries
\* that input, and is displayed with it; also for han >= 5.
DefaultCalculation == Calculation /\ request.calculation_mode = "Default"

C3_DefaultValidation ==
    DefaultCalculation =>
        /\ points.tag = "Err"
             <=> ~Accepted(request.han, request.fu, request.honbas)
        /\ points.tag = "Err" =>
             /\ points.error \in {"InvalidHan", "InvalidFu", "InvalidHonbas"}
             /\ points.error = "InvalidHan"
                  => request.han < 1 /\ points.value = request.han
             /\ points.error = "InvalidFu"
                  => request.fu \notin TableFu /\ points.value = request.fu
             /\ points.error = "InvalidHonbas"
                  => request.honbas < 0 /\ points.value = request.honbas
             /\ message # NotCalled =>
                  message =
                    Returned(
                      IF points.error = "InvalidHan"
                      THEN [text |-> "Han cannot be less than 1: ",
                            number |-> request.han, unit |-> " han"]
                      ELSE IF points.error = "InvalidFu"
                      THEN [text |-> "Invalid fu value: ",
                            number |-> request.fu, unit |-> " fu"]
                      ELSE [text |-> "Invalid honba count: ",
                            number |-> request.honbas, unit |-> " honbas"])

\* Default 13 han 35 fu was rejected for its fu, and the error displayed
C3_Witness ==
    /\ DefaultCalculation
    /\ request.han = 13
    /\ request.fu = 35
    /\ request.honbas = 0
    /\ points = Err("InvalidFu", 35)
    /\ message = Returned([text |-> "Invalid fu value: ", number |-> 35,
                           unit |-> " fu"])

-----------------------------------------------------------------------------
\* C4: in Default mode a Calculated result has no tsumo value exactly for
\* (han, fu) in {(1,20), (1,25), (2,25)} and no ron value exactly for
\* {(1,20), (1,25), (2,20), (3,20), (4,20)}; every other accepted (han, fu)
\* below the Mangan threshold has both.
TableNoTsumo == {<<1, 20>>, <<1, 25>>, <<2, 25>>}
TableNoRon == {<<1, 20>>, <<1, 25>>, <<2, 20>>, <<3, 20>>, <<4, 20>>}

DefaultCalculated ==
    /\ DefaultCalculation
    /\ points.tag = "Ok"
    /\ points.value.mode.kind = "Calculated"

C4_DefaultTableGaps ==
    DefaultCalculated =>
        LET pair == <<request.han, request.fu>>
        IN  /\ points.value.mode.has_tsumo <=> pair \notin TableNoTsumo
            /\ points.value.mode.has_ron <=> pair \notin TableNoRon
            /\ \A a \in {"oya_tsumo", "ko_tsumo"} :
                 payments[a] # NotCalled
                    => (payments[a] = Returned(None) <=> pair \in TableNoTsumo)
            /\ \A a \in {"oya_ron", "ko_ron"} :
                 payments[a] # NotCalled
                    => (payments[a] = Returned(None) <=> pair \in TableNoRon)

\* Default 4 han 20 fu: a tsumo value and no ron value
C4_Witness ==
    /\ DefaultCalculated
    /\ request.han = 4
    /\ request.fu = 20
    /\ request.honbas = 0
    /\ Paid("ko_tsumo", Some(<<1300, 2600>>))
    /\ Paid("ko_ron", None)
    /\ Paid("oya_ron", None)

-----------------------------------------------------------------------------
\* C5: for every Points value with base points b and honba h, each payment
\* that is defined is: oya_tsumo = ceil100(2b) + 100h, oya_ron = ceil100(6b) +
\* 300h, ko_tsumo = (ceil100(b) + 100h, ceil100(2b) + 100h), ko_ron =
\* ceil100(4b) + 300h, the honba bonus being added to the rounded payment.
C5_PaymentFormulas ==
    points.tag = "Ok" =>
        \A a \in Accessors :
            (payments[a] # NotCalled /\ payments[a] # Returned(None))
                => payments[a] = Returned(PaymentsOf(points.value.base_points,
                                                     points.value.honbas)[a])

\* Loose 1 han 30 fu with 3 honba (base 240): 600/800 tsumo, 1900 and 2400 ron
C5_Witness ==
    /\ Calculation
    /\ request.calculation_mode = "Loose"
    /\ request.han = 1
    /\ request.fu = 30
    /\ request.honbas = 3
    /\ points.tag = "Ok"
    /\ points.value.base_points = 240
    /\ Paid("ko_tsumo", Some(<<600, 800>>))
    /\ Paid("oya_tsumo", Some(800))
    /\ Paid("ko_ron", Some(1900))
    /\ Paid("oya_ron", Some(2400))

-----------------------------------------------------------------------------
\* C6: in Unlimited mode from_calculated applies neither a tier nor the 1975
\* cap: the result is always Calculated, and for han + 2 >= 0 its base points
\* are exactly fu x 2^(han+2) (15 han 50 fu: ko_ron 26214400; 3 han 150 fu:
\* ko_ron 19200; 20 han 40 fu: ko_ron 671088700).
UnlimitedCalculation == Calculation /\ request.calculation_mode = "Unlimited"

KoRonCalled == request.honbas = 0 /\ payments["ko_ron"] # NotCalled

C6_UnlimitedNeverCapped ==
    UnlimitedCalculation =>
        /\ points.tag = "Ok"
        /\ points.value.mode.kind = "Calculated"
        /\ request.han + 2 >= 0 =>
             points.value.base_points = request.fu * (2 ^ (request.han + 2))
        /\ (request.han = 15 /\ request.fu = 50 /\ KoRonCalled)
             => Paid("ko_ron", Some(26214400))
        /\ (request.han = 3 /\ request.fu = 150 /\ KoRonCalled)
             => Paid("ko_ron", Some(19200))
        /\ (request.han = 20 /\ request.fu = 40 /\ KoRonCalled)
             => Paid("ko_ron", Some(671088700))

\* Unlimited 20 han 40 fu: base 40 x 2^22, far above every tier
C6_Witness ==
    /\ UnlimitedCalculation
    /\ request.han = 20
    /\ request.fu = 40
    /\ request.honbas = 0
    /\ points.tag = "Ok"
    /\ points.value.mode.kind = "Calculated"
    /\ points.value.base_points = 167772160
    /\ Paid("ko_ron", Some(671088700))

-----------------------------------------------------------------------------
\* C7: in Loose and Unlimited mode from_calculated returns a Points value,
\* never an error, for every han, fu and honba: fu off the table, zero or
\* negative fu, han < 1, negative honba.
C7_NoValidationOutsideDefault ==
    (Calculation /\ request.calculation_mode \in {"Loose", "Unlimited"})
        => points.tag = "Ok"

\* Loose with han < 1, negative fu and negative honba returned a value
C7_Witness ==
    /\ Calculation
    /\ request.calculation_mode = "Loose"
    /\ request.han = -1
    /\ request.fu = -30
    /\ request.honbas = -1
    /\ points.tag = "Ok"
    /\ points.value.honbas = -1

-----------------------------------------------------------------------------
\* C8: in Loose and Unlimited mode both availability flags are always true and
\* all four payment accessors are defined, also for the pairs the Default
\* table has no entry for; Loose 1 han 20 fu gives ko_ron 700.
C8_AllPaymentsOutsideDefault ==
    (/\ Calculation
     /\ request.calculation_mode \in {"Loose", "Unlimited"}
     /\ points.tag = "Ok")
    => /\ points.value.mode.kind = "Calculated"
            => points.value.mode.has_tsumo /\ points.value.mode.has_ron
       /\ \A a \in Accessors : payments[a] # Returned(None)
       /\ (/\ request.calculation_mode = "Loose"
           /\ request.han = 1
           /\ request.fu = 20
           /\ KoRonCalled) => Paid("ko_ron", Some(700))

\* Loose 1 han 20 fu, all four accessors called: every payment is defined
C8_Witness ==
    /\ Calculation
    /\ request.calculation_mode = "Loose"
    /\ request.han = 1
    /\ request.fu = 20
    /\ request.honbas = 0
    /\ Paid("ko_ron", Some(700))
    /\ Paid("oya_ron", Some(1000))
    /\ Paid("ko_tsumo", Some(<<200, 400>>))
    /\ Paid("oya_tsumo", Some(400))

-----------------------------------------------------------------------------
\* C9 (amended): Loose mode accepts any fu and does not apply the table's
\* gaps: for the (han, fu) pairs where the table has no tsumo entry or no ron
\* entry, the Loose-mode result is a Calculated value of base points
\* fu x 2^(han+2) on which that payment is defined like any other.
LooseCalculation == Calculation /\ request.calculation_mode = "Loose"

InTableGap == <<request.han, request.fu>> \in TableNoTsumo \cup TableNoRon

C9_LooseFillsTableGaps ==
    /\ (LooseCalculation /\ request.han < 5 /\ request.fu \notin TableFu)
          => points.tag = "Ok"
    /\ (LooseCalculation /\ InTableGap) =>
          /\ points.tag = "Ok"
          /\ points.value.mode = [kind |-> "Calculated", has_tsumo |-> TRUE,
                                  has_ron |-> TRUE]
          /\ points.value.base_points = request.fu * (2 ^ (request.han + 2))
          /\ PaidAsExpected(PaymentsOf(request.fu * (2 ^ (request.han + 2)),
                                       request.honbas))

\* Loose 2 han 25 fu, which has no tsumo entry in the table, pays 400/800
C9_Witness ==
    /\ LooseCalculation
    /\ request.han = 2
    /\ request.fu = 25
    /\ request.honbas = 0
    /\ Paid("ko_tsumo", Some(<<400, 800>>))
    /\ Paid("oya_tsumo", Some(800))

\* C9 as first stated: Loose mode applies the table's gaps for han < 5, so the
\* payment the table has no entry for is undefined in the Loose-mode result.
C9_Original ==
    (LooseCalculation /\ request.han < 5 /\ points.tag = "Ok") =>
        LET pair == <<request.han, request.fu>>
        IN  /\ pair \in TableNoTsumo =>
                \A a \in {"oya_tsumo", "ko_tsumo"} :
                    payments[a] # NotCalled => payments[a] = Returned(None)
            /\ pair \in TableNoRon =>
                \A a \in {"oya_ron", "ko_ron"} :
                    payments[a] # NotCalled => payments[a] = Returned(None)

-----------------------------------------------------------------------------
\* C10: for any Points value oya_tsumo and ko_tsumo return None exactly when it
\* is Calculated with has_tsumo false, and oya_ron and ko_ron return None
\* exactly when it is Calculated with has_ron false; a Limited value has all
\* four payments; an undefined payment is never the number 0.
\* new_calculated(320, true, false, 0 honba): ko_tsumo (400, 700), no ko_ron.
NoTsumoFlag ==
    points.value.mode.kind = "Calculated" /\ ~points.value.mode.has_tsumo

NoRonFlag ==
    points.value.mode.kind = "Calculated" /\ ~points.value.mode.has_ron

C10_UndefinedIsNone ==
    points.tag = "Ok" =>
        /\ \A a \in {"oya_tsumo", "ko_tsumo"} :
             payments[a] # NotCalled
                => (payments[a] = Returned(None) <=> NoTsumoFlag)
        /\ \A a \in {"oya_ron", "ko_ron"} :
             payments[a] # NotCalled
                => (payments[a] = Returned(None) <=> NoRonFlag)
        /\ points.value.mode.kind = "Limited"
             => \A a \in Accessors : payments[a] # Returned(None)
        /\ NoTsumoFlag
             => /\ payments["oya_tsumo"] # Returned(Some(0))
                /\ payments["ko_tsumo"] # Returned(Some(<<0, 0>>))
        /\ NoRonFlag
             => /\ payments["oya_ron"] # Returned(Some(0))
                /\ payments["ko_ron"] # Returned(Some(0))
        /\ (/\ request.op = "new_calculated"
            /\ request.base_points = 320
            /\ request.has_tsumo
            /\ ~request.has_ron
            /\ request.honbas = 0)
           => /\ payments["ko_tsumo"] # NotCalled
                    => Paid("ko_tsumo", Some(<<400, 700>>))
              /\ payments["ko_ron"] # NotCalled => Paid("ko_ron", None)

\* new_calculated(0, true, false, 0 honba): tsumo pays (0, 0), ron is undefined
C10_Witness ==
    /\ request.op = "new_calculated"
    /\ request.base_points = 0
    /\ request.has_tsumo
    /\ ~request.has_ron
    /\ request.honbas = 0
    /\ Paid("ko_tsumo", Some(<<0, 0>>))
    /\ Paid("oya_tsumo", Some(0))
    /\ Paid("ko_ron", None)
    /\ Paid("oya_ron", None)

-----------------------------------------------------------------------------
\* C11: of two values that differ only in honba, h and h + 1, every defined
\* tsumo payment (oya_tsumo, both elements of ko_tsumo) of the second is
\* exactly 100 higher and every defined ron payment (oya_ron, ko_ron) exactly
\* 300 higher; for any base points, Limited and Calculated, negative honba
\* included.

\* the value returned, with one honba more
OneMoreHonba == [points.value EXCEPT !.honbas = @ + 1]

\* the accessor was called and returned a payment
Defined(a) == payments[a].tag = "Returned" /\ payments[a].value # None

C11_HonbaLinearity ==
    points.tag = "Ok" =>
        /\ Defined("oya_tsumo")
              => oya_tsumo(OneMoreHonba)
                   = Some(payments["oya_tsumo"].value[1] + 100)
        /\ Defined("ko_tsumo")
              => ko_tsumo(OneMoreHonba)
                   = Some(<<payments["ko_tsumo"].value[1][1] + 100,
                            payments["ko_tsumo"].value[1][2] + 100>>)
        /\ Defined("oya_ron")
              => oya_ron(OneMoreHonba)
                   = Some(payments["oya_ron"].value[1] + 300)
        /\ Defined("ko_ron")
              => ko_ron(OneMoreHonba)
                   = Some(payments["ko_ron"].value[1] + 300)

\* new_calculated(-25, true, true, -1 honba): ko_tsumo pays (-100, -100), and
\* (0, 0) with 0 honba; ko_ron pays -400, and -100 with 0 honba
C11_Witness ==
    /\ request.op = "new_calculated"
    /\ request.base_points = -25
    /\ request.honbas = -1
    /\ Paid("ko_tsumo", Some(<<-100, -100>>))
    /\ ko_tsumo(OneMoreHonba) = Some(<<0, 0>>)
    /\ Paid("ko_ron", Some(-400))
    /\ ko_ron(OneMoreHonba) = Some(-100)

-----------------------------------------------------------------------------
\* C12: whenever the tsumo payments of a value are defined, the second element
\* of ko_tsumo() (the dealer's share) equals oya_tsumo(); the two accessors
\* are defined together.
C12_DealerShareIsOyaTsumo ==
    (/\ points.tag = "Ok"
     /\ payments["ko_tsumo"] # NotCalled
     /\ payments["oya_tsumo"] # NotCalled)
    => /\ Defined("ko_tsumo") <=> Defined("oya_tsumo")
       /\ Defined("ko_tsumo")
             => payments["ko_tsumo"].value[1][2] = payments["oya_tsumo"].value[1]

\* Default, 2 han 20 fu, 1 honba: ko_tsumo (500, 800), oya_tsumo 800
C12_Witness ==
    /\ Calculation
    /\ request.calculation_mode = "Default"
    /\ request.han = 2
    /\ request.fu = 20
    /\ request.honbas = 1
    /\ Paid("ko_tsumo", Some(<<500, 800>>))
    /\ Paid("oya_tsumo", Some(800))

-----------------------------------------------------------------------------
\* C14: every value returned by from_calculated reports through honbas()
\* exactly the honba it was given, whether it comes from a tier, from the
\* promotion to Mangan or from the general formula, and its payments carry
\* that honba: Default, 5 han 40 fu, 3 honba is a Mangan with ko_ron 8900.

\* honbas() was called and returned h
Reported(h) == queries["honbas"] = Returned(h)

C14_HonbasKept ==
    (Calculation /\ points.tag = "Ok")
    => /\ queries["honbas"] # NotCalled => Reported(request.honbas)
       /\ (/\ request.calculation_mode = "Default"
           /\ request.han = 5
           /\ request.fu = 40
           /\ request.honbas = 3)
          => /\ points.value.mode = Limited
             /\ points.value.base_points = 2000
             /\ payments["ko_ron"] # NotCalled => Paid("ko_ron", Some(8900))

\* Default, 4 han 40 fu, 3 honba: promoted to Mangan, honbas() is 3
C14_Witness ==
    /\ Calculation
    /\ request.calculation_mode = "Default"
    /\ request.han = 4
    /\ request.fu = 40
    /\ request.honbas = 3
    /\ points.tag = "Ok"
    /\ points.value.mode = Limited
    /\ Reported(3)

-----------------------------------------------------------------------------
\* C15: for every value, whichever constructor made it, exactly one of
\* is_limited() and is_calculated() is true.
C15_LimitedXorCalculated ==
    (/\ points.tag = "Ok"
     /\ queries["is_limited"] # NotCalled
     /\ queries["is_calculated"] # NotCalled)
    => /\ queries["is_limited"].value \in BOOLEAN
       /\ queries["is_calculated"].value \in BOOLEAN
       /\ queries["is_limited"].value # queries["is_calculated"].value

\* the Mangan constructor: limited, not calculated
C15_Witness ==
    /\ request.op = "mangan"
    /\ queries["is_limited"] = Returned(TRUE)
    /\ queries["is_calculated"] = Returned(FALSE)

-----------------------------------------------------------------------------
(* Vocabulary of the properties of the parser: what the notation says      *)
(* about the input read, hand.                                             *)

\* a string is being parsed
Parsing == request.op = "parse"

\* parse returned a hand
ParsedOk == Parsing /\ parsed.tag = "Ok"

\* parse failed at position p with error e
Failed(p, e) == parsed = [tag |-> "Err", position |-> p, error_type |-> e]

IsDigit(c) == c \in {"0", "1", "2", "3", "4", "5", "6", "7", "8", "9"}

IsSymbol(c) == c \in {"E", "S", "W", "N", "w", "g", "r", "?"}

IsTileChar(c) == IsDigit(c) \/ IsSymbol(c)

IsModifier(c) == c \in {"*", "'"}

IsSuiteChar(c) == c \in {"m", "p", "s", "z"}

IsSeparator(c) == c = "_"

Last(h) == h[Len(h)]

Front(h) == SubSeq(h, 1, Len(h) - 1)

\* the n-th smallest element of a set of positions
Nth(S, n) == CHOOSE i \in S : Cardinality({k \in S : k <= i}) = n

\* the positions (from 1) of the characters of h that write a tile
TilePositions(h) == {i \in 1..Len(h) : IsTileChar(h[i])}

\* the positions (from 1) of the group separators of h
SeparatorPositions(h) == {i \in 1..Len(h) : IsSeparator(h[i])}

\* the number of modifiers written directly after position i
ModifiersAfter(h, i) ==
    CHOOSE k \in 0..(Len(h) - i) :
        /\ \A j \in (i + 1)..(i + k) : IsModifier(h[j])
        /\ i + k = Len(h) \/ ~IsModifier(h[i + k + 1])

\* the placement k steps after Normal
StepsFromNormal(k) ==
    IF k % 3 = 0 THEN "Normal"
    ELSE IF k % 3 = 1 THEN "Rotated"
    ELSE "RotatedAndShifted"

\* the number a tile character stands for
ValueWritten(c) ==
    IF IsDigit(c)
    THEN CHOOSE v \in 0..9 : <<"0", "1", "2", "3", "4", "5", "6", "7", "8", "9">>[v + 1] = c
    ELSE IF c = "E" THEN 1 ELSE IF c = "S" THEN 2 ELSE IF c = "W" THEN 3
    ELSE IF c = "N" THEN 4 ELSE IF c = "w" THEN 5 ELSE IF c = "g" THEN 6
    ELSE IF c = "r" THEN 7 ELSE 0

\* the tiles of all the groups, in order
RECURSIVE Flatten(_)
Flatten(gs) == IF gs = <<>> THEN <<>> ELSE Head(gs) \o Flatten(Tail(gs))

\* the tiles of the hand returned
HandTiles == Flatten(parsed.value.groups)

\* the part of h between its (g-1)-th and its g-th separator
Segment(h, g) ==
    LET seps == SeparatorPositions(h)
        first == IF g = 1 THEN 1 ELSE Nth(seps, g - 1) + 1
        last == IF g > Cardinality(seps) THEN Len(h) ELSE Nth(seps, g) - 1
    IN  SubSeq(h, first, last)

\* the numbers of the tiles written in a part of the input, in order
ValuesWritten(part) ==
    LET written == SelectSeq(part, IsTileChar)
    IN  [k \in 1..Len(written) |-> ValueWritten(written[k])]

\* a digit of h has no suite character (and no separator) after it
DigitsWaiting(h) ==
    \E i \in 1..Len(h) :
        /\ IsDigit(h[i])
        /\ \A j \in (i + 1)..Len(h) : ~IsSuiteChar(h[j]) /\ ~IsSeparator(h[j])

\* after h no tile is waiting for a modifier: h is empty or ends with a
\* separator or a suite character
NoTileBefore(h) ==
    h = <<>> \/ IsSeparator(Last(h)) \/ IsSuiteChar(Last(h))

\* the ranges of the tile values
ValidTile(suite, value) ==
    \/ suite \in {"Manzu", "Pinzu", "Souzu"} /\ value \in 0..9
    \/ suite = "Honor" /\ value \in 1..7
    \/ suite = "Any" /\ value = 0

-----------------------------------------------------------------------------
\* C16: each position modifier ("*" or "'", interchangeably) moves the
\* placement of the tile written directly before it one step along Normal ->
\* Rotated -> RotatedAndShifted -> Normal, so a tile followed by k modifiers is
\* k mod 3 steps from Normal, and no other tile's placement changes; the same
\* for tiles written as digits and as special symbols.
C16_ModifiersCyclePlacement ==
    ParsedOk =>
        /\ Len(HandTiles) = Cardinality(TilePositions(hand))
        /\ \A n \in 1..Len(HandTiles) :
             HandTiles[n].placement
                = StepsFromNormal(ModifiersAfter(hand, Nth(TilePositions(hand), n)))

\* "1'**m": three modifiers bring 1m back to Normal
C16_Witness ==
    /\ ParsedOk
    /\ hand = <<"1", "'", "*", "*", "m">>
    /\ HandTiles = <<[tile |-> [suite |-> "Manzu", value |-> 1],
                      placement |-> "Normal"]>>

-----------------------------------------------------------------------------
\* C17: a hand returned has exactly 1 + (number of "_" in the input) groups,
\* in input order, the n-th group holding the tiles written between the
\* (n-1)-th and the n-th separator; consecutive separators give empty groups
\* and the empty string gives one empty group.
C17_GroupsFollowSeparators ==
    ParsedOk =>
        /\ Len(parsed.value.groups) = 1 + Cardinality(SeparatorPositions(hand))
        /\ \A g \in 1..Len(parsed.value.groups) :
             [k \in 1..Len(parsed.value.groups[g])
                |-> parsed.value.groups[g][k].tile.value]
                = ValuesWritten(Segment(hand, g))
        /\ hand = <<>> => parsed.value.groups = << <<>> >>

\* "1m__E": three groups, the second empty
C17_Witness ==
    /\ ParsedOk
    /\ hand = <<"1", "m", "_", "_", "E">>
    /\ Len(parsed.value.groups) = 3
    /\ Len(parsed.value.groups[1]) = 1
    /\ parsed.value.groups[2] = <<>>
    /\ Len(parsed.value.groups[3]) = 1

-----------------------------------------------------------------------------
\* C18: when digits are still waiting for a suite character at a group
\* separator or at the end of the input, parsing fails with UnfinishedSuite,
\* at the separator's position or at the length of the input ("101" -> 3,
\* "10_" -> 2), and no hand is returned; UnfinishedSuite is reported in no
\* other case.
C18_UnfinishedSuite ==
    Parsing =>
        /\ (hand # <<>> /\ IsSeparator(Last(hand)) /\ DigitsWaiting(Front(hand)))
              => Failed(Len(hand) - 1, "UnfinishedSuite")
        /\ DigitsWaiting(hand) => parsed.tag # "Ok"
        /\ (parsed.tag = "Err" /\ parsed.position = Len(hand))
              => DigitsWaiting(hand) /\ Failed(Len(hand), "UnfinishedSuite")
        /\ (parsed.tag = "Err" /\ parsed.error_type = "UnfinishedSuite")
              => \/ /\ parsed.position = Len(hand) - 1
                    /\ IsSeparator(Last(hand))
                    /\ DigitsWaiting(Front(hand))
                 \/ /\ parsed.position = Len(hand)
                    /\ DigitsWaiting(hand)
        /\ hand = <<"1", "0", "1">> => parsed = Pending \/ Failed(3, "UnfinishedSuite")
        /\ hand = <<"1", "0", "_">> => Failed(2, "UnfinishedSuite")

\* "1m_01": the end of the input is reached with 0 and 1 waiting
C18_Witness ==
    /\ Parsing
    /\ hand = <<"1", "m", "_", "0", "1">>
    /\ Failed(5, "UnfinishedSuite")

-----------------------------------------------------------------------------
\* C19: a position modifier with no tile before it (at the start of the
\* input, directly after a group separator or directly after a suite
\* character) fails with PositionModifierWithNoTile at the modifier's position
\* ("**" -> 0, "1m_*" -> 3); a modifier anywhere else does not.
C19_ModifierWithNoTile ==
    Parsing =>
        /\ (hand # <<>> /\ IsModifier(Last(hand)) /\ NoTileBefore(Front(hand)))
              => Failed(Len(hand) - 1, "PositionModifierWithNoTile")
        /\ (parsed.tag = "Err" /\ parsed.error_type = "PositionModifierWithNoTile")
              => /\ parsed.position = Len(hand) - 1
                 /\ IsModifier(Last(hand))
                 /\ NoTileBefore(Front(hand))

\* "1m_*": the modifier directly after the separator, at position 3
C19_Witness ==
    /\ Parsing
    /\ hand = <<"1", "m", "_", "*">>
    /\ Failed(3, "PositionModifierWithNoTile")

-----------------------------------------------------------------------------
\* C20: Tile::new(suite, value) succeeds exactly when value is in 0..9 for
\* Manzu, Pinzu and Souzu, in 1..7 for Honor, and 0 for Any, and fails with
\* InvalidTileError otherwise; so every tile of a hand returned is in these
\* ranges, and "0z" and "8z" fail with InvalidValue at position 1, the
\* position of the suite character.
C20_TileRanges ==
    /\ (request.op = "Tile_new" /\ tile # NotCalled)
          => IF ValidTile(request.suite, request.value)
             THEN tile = Returned([tag |-> "Ok",
                                   value |-> [suite |-> request.suite,
                                              value |-> request.value]])
             ELSE /\ tile.value.tag = "Err"
                  /\ tile.value.error = "InvalidTileError"
    /\ ParsedOk
          => \A n \in 1..Len(HandTiles) :
                 ValidTile(HandTiles[n].tile.suite, HandTiles[n].tile.value)
    /\ (Parsing /\ hand \in {<<"0", "z">>, <<"8", "z">>})
          => Failed(1, "InvalidValue")
    /\ (Parsing /\ parsed.tag = "Err" /\ parsed.error_type = "InvalidValue")
          => /\ parsed.position = Len(hand) - 1
             /\ IsSuiteChar(Last(hand))

\* Tile::new(Honor, 8) is refused
C20_Witness ==
    /\ request = [op |-> "Tile_new", suite |-> "Honor", value |-> 8]
    /\ tile # NotCalled
    /\ tile.value.tag = "Err"

-----------------------------------------------------------------------------
\* C21: in the general formula of from_calculated, when han + 2 is negative
\* the base points are fu divided by 2^(-(han+2)), rounded toward positive
\* infinity when fu is positive and toward zero when fu is not positive
\* (Unlimited -4 han -30 fu: -30 / 4 gives -7).

\* from_calculated returned a Calculated value for a han below -2
BelowUnitPower ==
    /\ Calculation
    /\ request.han + 2 < 0
    /\ points.tag = "Ok"
    /\ points.value.mode.kind = "Calculated"

\* q is fu / 2^k rounded toward positive infinity (k beyond 30: 2^k > |fu|)
TowardPlusInfinity(fu, k, q) ==
    IF k > 30 THEN q = (IF fu > 0 THEN 1 ELSE 0)
    ELSE (q - 1) * (2 ^ k) < fu /\ fu <= q * (2 ^ k)

\* q is fu / 2^k rounded toward zero
TowardZero(fu, k, q) ==
    IF k > 30 THEN q = 0
    ELSE IF fu >= 0 THEN q * (2 ^ k) <= fu /\ fu < (q + 1) * (2 ^ k)
    ELSE (q - 1) * (2 ^ k) < fu /\ fu <= q * (2 ^ k)

\* q is fu / 2^k rounded toward negative infinity
TowardMinusInfinity(fu, k, q) ==
    IF k > 30 THEN q = (IF fu < 0 THEN -1 ELSE 0)
    ELSE q * (2 ^ k) <= fu /\ fu < (q + 1) * (2 ^ k)

C21_NegativePowerRounding ==
    BelowUnitPower =>
        IF request.fu > 0
        THEN TowardPlusInfinity(request.fu, -(request.han + 2),
                                points.value.base_points)
        ELSE TowardZero(request.fu, -(request.han + 2), points.value.base_points)

\* Unlimited, -4 han -30 fu: base points -7, not -8
C21_Witness ==
    /\ BelowUnitPower
    /\ request.calculation_mode = "Unlimited"
    /\ request.han = -4
    /\ request.fu = -30
    /\ points.value.base_points = -7

\* C21 as first stated: a non-positive fu is rounded toward negative infinity
C21_Original ==
    BelowUnitPower =>
        IF request.fu > 0
        THEN TowardPlusInfinity(request.fu, -(request.han + 2),
                                points.value.base_points)
        ELSE TowardMinusInfinity(request.fu, -(request.han + 2),
                                 points.value.base_points)

-----------------------------------------------------------------------------
\* C22: round_up_to(value, divisor) with divisor > 0 returns, for value > 0,
\* the smallest multiple of divisor that is >= value, and for value <= 0,
\* divisor times the quotient value / divisor truncated toward zero (for
\* divisor 100: -1920 -> -1900, -25 -> 0, 0 -> 0); the result is always a
\* multiple of divisor.  On i32 this holds whenever value + divisor - 1 is
\* inside the range, and the rounding leaves the range otherwise.

\* round_up_to was applied and returned r
RoundedTo(r) == rounded # <<>> /\ rounded[1] = Some(r)

C22_RoundUpTo ==
    (request.op = "round_up_to" /\ rounded # <<>>) =>
        LET value == request.num
            divisor == request.divisor
        IN  IF value > 0 /\ value > I32_MAX - (divisor - 1)
            THEN rounded[1] = None
            ELSE /\ rounded[1] # None
                 /\ LET r == rounded[1][1]
                    IN  /\ r % divisor = 0
                        /\ value > 0 => r >= value /\ r - divisor < value
                        /\ value <= 0
                             => r <= 0 /\ -r = divisor * ((-value) \div divisor)
                        /\ divisor = 100 =>
                             /\ value = -1920 => r = -1900
                             /\ value = -25 => r = 0
                             /\ value = 0 => r = 0

\* round_up_to(-25, 7) is -21
C22_Witness ==
    /\ request.op = "round_up_to"
    /\ request.num = -25
    /\ request.divisor = 7
    /\ RoundedTo(-21)

-----------------------------------------------------------------------------
\* C23: round_up_to is idempotent for divisor 100:
\* round_up_to(round_up_to(x, 100), 100) = round_up_to(x, 100) for every x,
\* positive, zero or negative, as long as round_up_to(x, 100) + 99 does not
\* leave the numeric range.

\* a number was rounded to a multiple of 100, and the result rounded again
RoundedTwiceTo100 ==
    /\ \/ request.op = "round_up_points"
       \/ request.op = "round_up_to" /\ request.divisor = 100
    /\ Len(rounded) = 2

C23_RoundUpIdempotent ==
    (RoundedTwiceTo100 /\ rounded[1][1] <= I32_MAX - 99)
        => rounded[2] = rounded[1]

\* round_up_points(-1920) is -1900, and -1900 again when rounded again
C23_Witness ==
    /\ request.op = "round_up_points"
    /\ request.num = -1920
    /\ rounded = <<Some(-1900), Some(-1900)>>

\* C23 as first stated: as long as x + 99 does not leave the numeric range
C23_Original ==
    (RoundedTwiceTo100 /\ request.num <= I32_MAX - 99)
        => rounded[2] = rounded[1]

-----------------------------------------------------------------------------
\* C24: Default mode refines Loose mode: for every (han, fu, honba) Default
\* accepts, Loose-mode from_calculated returns a value with the same base
\* points, the same honba and the same Limited/Calculated kind, so every
\* payment the Default result defines equals the Loose result's; Loose also
\* defines the payments Default leaves undefined.

\* what accessor a returns for the value v
PaymentOf(a, v) ==
    IF a = "oya_tsumo" THEN oya_tsumo(v)
    ELSE IF a = "oya_ron" THEN oya_ron(v)
    ELSE IF a = "ko_tsumo" THEN ko_tsumo(v)
    ELSE ko_ron(v)

\* what Loose mode returns for the request
InLoose ==
    from_calculated("Loose", request.han, request.fu, request.honbas)

C24_DefaultRefinesLoose ==
    (/\ DefaultCalculation
     /\ Accepted(request.han, request.fu, request.honbas))
    => /\ points.tag = "Ok"
       /\ InLoose.tag = "Ok"
       /\ InLoose.value.base_points = points.value.base_points
       /\ InLoose.value.honbas = points.value.honbas
       /\ InLoose.value.mode.kind = points.value.mode.kind
       /\ \A a \in Accessors :
            /\ Defined(a) => payments[a] = Returned(PaymentOf(a, InLoose.value))
            /\ PaymentOf(a, InLoose.value) # None

\* Default, 1 han 20 fu: no ko_ron, where Loose pays 700
C24_Witness ==
    /\ DefaultCalculation
    /\ request.han = 1
    /\ request.fu = 20
    /\ request.honbas = 0
    /\ Paid("ko_ron", None)
    /\ Paid("ko_tsumo", None)
    /\ PaymentOf("ko_ron", InLoose.value) = Some(700)

-----------------------------------------------------------------------------
\* C25: every value from_calculated returns in Default or Loose mode is
\* either Limited with base points in {2000, 3000, 4000, 6000, 8000} or
\* Calculated with base points below 1975; so, for equal honba, no payment of
\* a Calculated result exceeds the Mangan payment and no payment at all
\* exceeds the Yakuman payment (ko_tsumo (8000, 16000), ko_ron 32000, oya_ron
\* 48000 at honba 0).

\* from_calculated returned a value in a mode with the cap
CappedCalculation ==
    /\ Calculation
    /\ request.calculation_mode \in {"Default", "Loose"}
    /\ points.tag = "Ok"

\* payment p is at most payment q (numbers, or pairs of numbers)
AtMost(a, p, q) ==
    IF a = "ko_tsumo"
    THEN p[1][1] <= q[1][1] /\ p[1][2] <= q[1][2]
    ELSE p[1] <= q[1]

C25_CapInvariant ==
    CappedCalculation =>
        /\ \/ /\ points.value.mode.kind = "Limited"
              /\ points.value.base_points \in {2000, 3000, 4000, 6000, 8000}
           \/ /\ points.value.mode.kind = "Calculated"
              /\ points.value.base_points < 1975
        /\ \A a \in Accessors :
             Defined(a) =>
                /\ AtMost(a, payments[a].value,
                          PaymentsOf(8000, request.honbas)[a])
                /\ points.value.mode.kind = "Calculated"
                     => AtMost(a, payments[a].value,
                               PaymentsOf(2000, request.honbas)[a])
        /\ PaymentsOf(8000, 0)
             = [oya_tsumo |-> Some(16000), oya_ron |-> Some(48000),
                ko_tsumo |-> Some(<<8000, 16000>>), ko_ron |-> Some(32000)]

\* Loose, -2 han 1974 fu: base points 1974, ko_ron 7900
C25_Witness ==
    /\ CappedCalculation
    /\ request.calculation_mode = "Loose"
    /\ request.han = -2
    /\ request.fu = 1974
    /\ request.honbas = 0
    /\ points.value.mode.kind = "Calculated"
    /\ points.value.base_points = 1974
    /\ Paid("ko_ron", Some(7900))

-----------------------------------------------------------------------------
\* C26: in Default mode, with honba fixed, valid fu and 1 <= han1 <= han2,
\* every payment defined for both (han1, fu) and (han2, fu) is at most as
\* large for han1 as for han2; likewise for fixed han and fu1 <= fu2.  Passing
\* from the general formula into the promotion to Mangan or into a tier never
\* lowers a payment.

\* what Default mode returns for han and fu with the honba of the request
InDefault(han, fu) == from_calculated("Default", han, fu, request.honbas)

\* the payment returned is at most what the value v pays, when v pays it
NotAbove(a, v) ==
    (Defined(a) /\ PaymentOf(a, v) # None)
        => AtMost(a, payments[a].value, PaymentOf(a, v))

C26_DefaultMonotone ==
    (/\ DefaultCalculation
     /\ Accepted(request.han, request.fu, request.honbas)
     /\ points.tag = "Ok")
    => /\ \A han2 \in (1..(MaxHan + 1)) \cup {100} :
            han2 >= request.han
               => \A a \in Accessors :
                      NotAbove(a, InDefault(han2, request.fu).value)
       /\ \A fu2 \in TableFu :
            fu2 >= request.fu
               => \A a \in Accessors :
                      NotAbove(a, InDefault(request.han, fu2).value)

\* Default, 4 han 30 fu pays ko_ron 7700, and 8000 at 40 fu and at 5 han
C26_Witness ==
    /\ DefaultCalculation
    /\ request.han = 4
    /\ request.fu = 30
    /\ request.honbas = 0
    /\ Paid("ko_ron", Some(7700))
    /\ PaymentOf("ko_ron", InDefault(4, 40).value) = Some(8000)
    /\ PaymentOf("ko_ron", InDefault(5, 30).value) = Some(8000)

-----------------------------------------------------------------------------
\* C27: in Default mode from_calculated returns Ok with a value on which all
\* four payments are undefined exactly for (han, fu) = (1, 20) and (1, 25);
\* for every other input Default accepts, tsumo or ron is defined.
AllUndefined == \A a \in Accessors : payments[a] = Returned(None)

AllCalled == \A a \in Accessors : payments[a] # NotCalled

C27_AllUndefinedOnlyTwice ==
    DefaultCalculation =>
        /\ (points.tag = "Ok" /\ NoTsumoFlag /\ NoRonFlag)
              <=> /\ <<request.han, request.fu>> \in {<<1, 20>>, <<1, 25>>}
                  /\ request.honbas >= 0
        /\ (points.tag = "Ok" /\ AllCalled)
              => (AllUndefined
                    <=> <<request.han, request.fu>> \in {<<1, 20>>, <<1, 25>>})

\* Default, 1 han 25 fu: all four accessors return None
C27_Witness ==
    /\ DefaultCalculation
    /\ request.han = 1
    /\ request.fu = 25
    /\ points.tag = "Ok"
    /\ AllUndefined

-----------------------------------------------------------------------------
\* C28: with the 32-bit signed base type, for every input Default mode
\* accepts (han from 1 to 2^31 - 1, one of the 11 valid fu, honba from 0 to
\* 2^31 - 1), no arithmetic step of from_calculated or of the four accessors
\* (han + 2, 2^power x fu, base x 2 / 4 / 6, the + 99 of the rounding,
\* honba x 100, honba x 300, the final sum) leaves the i32 range.

\* from_calculated was asked in Default mode for an input it accepts
AcceptedByDefault ==
    /\ request.op = "from_calculated"
    /\ request.calculation_mode = "Default"
    /\ Accepted(request.han, request.fu, request.honbas)

C28_Original ==
    AcceptedByDefault =>
        /\ points # Overflow
        /\ \A a \in Accessors : payments[a] # Overflow

\* Default, 1 han 30 fu, 7158279 honba: honba x 300 of ko_ron leaves the range
C28_Witness ==
    /\ AcceptedByDefault
    /\ request.han = 1
    /\ request.fu = 30
    /\ request.honbas = 7158279
    /\ points.tag = "Ok"
    /\ payments["ko_ron"] = Overflow

====
